---- MODULE Spec2Model ----
(***************************************************************************)
(* A model of the numerical-integration crate: Butcher-tableau validation  *)
(* (ButcherTableau::new, RungeKutta::from_matrix,                          *)
(* AdaptiveRungeKutta::from_matrix), the explicit Runge-Kutta step         *)
(* (compute_k, RungeKutta::step), the adaptive step-size search            *)
(* (adaptive_init, adaptive_step) and the Velocity-Verlet stepper.         *)
(*                                                                         *)
(* Scalars of the generic code (R: Real, S: VectorSpace<R>) are exact      *)
(* rationals <<numerator, denominator>>; the f64 run of                    *)
(* examples/exp_comparison.rs is modelled with IEEE-754 binary64 rounding. *)
(* Matrices are sequences of rows; the code's 0-based index [i][j] is      *)
(* At(t, i, j).                                                            *)
(***************************************************************************)
EXTENDS Integers, Sequences, FiniteSets, TLC

VARIABLES
    \* --- tableau validation and run-time safety (runge_kutta.rs 40-232) ---
    matrix,      \* the rk_matrix handed to from_matrix
    fixedRes,    \* result of RungeKutta::from_matrix, or "none"
    adaptRes,    \* result of AdaptiveRungeKutta::from_matrix, or "none"
    runtime,     \* outcomes of order()/step/adaptive_step on the built integrators
    \* --- fixed-step integration (runge_kutta.rs 200-232) ---
    rkSelf,      \* the RungeKutta descriptor (its tableau)
    rkState,     \* the caller's buffer, as made by init: one slot
    rkCalls,     \* number of step calls made
    rkLast,      \* the last step call: its arguments, the buffer before it, its result
    \* --- the f64 Euler run of examples/exp_comparison.rs ---
    euState,     \* the buffer y1 made by EULER.init(1.0, dt, f)
    euCalls,     \* number of EULER.step calls made
    euLast,      \* the last call: its time argument, the buffer before it, its result
    \* --- adaptive integration (runge_kutta.rs 234-270) ---
    adSelf,      \* the AdaptiveRungeKutta descriptor (its tableau)
    adForce,     \* the derivative the caller passes on every call
    adSeed,      \* the ds the buffer was made with by adaptive_init
    adState,     \* the caller's buffer: <<(time, state), (trial step, estimate)>>
    adPc,        \* "idle" between calls, "loop" inside adaptive_step's loop
    adCall,      \* the running call: its ds, locals dt and time, rejections so far
    adCalls,     \* number of adaptive_step calls that have returned
    adLast,      \* the last call that returned: arguments, accepted trial, result
    \* --- Velocity Verlet (lib.rs 198-245) ---
    vvState,     \* the caller's buffer: <<(D, state), (D, accumulator)>>
    vvCalls,     \* number of step_with_vel calls made
    vvLast,      \* the last call: its arguments, the buffer before it, its result
    \* --- two callers of shared descriptors (&self of step, adaptive_step, step_with_vel) ---
    ccSelf,      \* the shared descriptors: [rk |-> tableau, ad |-> tableau] (VelocityVerlet has no field)
    ccProg,      \* per caller: the integrator it uses and the inputs of its calls
    ccBuf,       \* per caller: its private buffer
    ccPc,        \* per caller: "idle" between calls, or the point reached inside a call
    ccFrame,     \* per stack frame: the locals of the call running in it
    ccOut        \* per caller: the values its calls returned, in order

varsV == <<matrix, fixedRes, adaptRes, runtime>>

varsRK == <<rkSelf, rkState, rkCalls, rkLast>>

varsEU == <<euState, euCalls, euLast>>

varsAD == <<adSelf, adForce, adSeed, adState, adPc, adCall, adCalls, adLast>>

varsVV == <<vvState, vvCalls, vvLast>>

varsCC == <<ccSelf, ccProg, ccBuf, ccPc, ccFrame, ccOut>>

vars == <<varsV, varsRK, varsEU, varsAD, varsVV, varsCC>>

\* the variables each machine leaves alone
othersV == <<varsRK, varsEU, varsAD, varsVV, varsCC>>
othersRK == <<varsV, varsEU, varsAD, varsVV, varsCC>>
othersEU == <<varsV, varsRK, varsAD, varsVV, varsCC>>
othersAD == <<varsV, varsRK, varsEU, varsVV, varsCC>>
othersVV == <<varsV, varsRK, varsEU, varsAD, varsCC>>
othersCC == <<varsV, varsRK, varsEU, varsAD, varsVV>>

----------------------------------------------------------------------------
(* Bounds of the model. *)

MaxRows == 3
MaxCols == 3
MaxSteps == 2
MaxEulerSteps == 100
MaxCalls == 2
MaxRejects == 4

----------------------------------------------------------------------------
(* Exact rational scalars: <<n, d>> with d > 0 and gcd(n, d) = 1. *)

Abs(x) == IF x < 0 THEN -x ELSE x

RECURSIVE Gcd(_, _)
Gcd(a, b) == IF b = 0 THEN a ELSE Gcd(b, a % b)

Norm(n, d) ==
    LET g == Gcd(Abs(n), Abs(d))
        s == IF d < 0 THEN -1 ELSE 1
    IN  <<s * (n \div g), s * (d \div g)>>

Rat(n, d) == Norm(n, d)

Zero == <<0, 1>>
One == <<1, 1>>

\* a + b over the least common denominator
RAdd(a, b) ==
    LET g == Gcd(a[2], b[2])
    IN  Norm(a[1] * (b[2] \div g) + b[1] * (a[2] \div g), (a[2] \div g) * b[2])

RNeg(a) == <<-a[1], a[2]>>

RSub(a, b) == RAdd(a, RNeg(b))

\* a * b, cross-reduced before multiplying
RMul(a, b) ==
    LET g1 == Gcd(Abs(a[1]), b[2])
        g2 == Gcd(Abs(b[1]), a[2])
        h1 == IF g1 = 0 THEN 1 ELSE g1
        h2 == IF g2 = 0 THEN 1 ELSE g2
    IN  Norm((a[1] \div h1) * (b[1] \div h2), (a[2] \div h2) * (b[2] \div h1))

\* a < b, compared over the least common denominator
RLess(a, b) ==
    LET g == Gcd(a[2], b[2])
    IN  a[1] * (b[2] \div g) < b[1] * (a[2] \div g)

RAbs(a) == <<Abs(a[1]), a[2]>>

\* `x != 0.0`
NonZero(c) == c[1] # 0

----------------------------------------------------------------------------
(* Matrices. *)

Rows(t) == Len(t)

\* table[i].len()
RowLen(t, i) == Len(t[i + 1])

\* table[i][j]
At(t, i, j) == t[i + 1][j + 1]

----------------------------------------------------------------------------
(* ButcherTableau::new *)

\* for j in i..columns { if table[i][j] != 0.0 { implicit = true; break; } }
RowImplicit(table, i, columns) ==
    \E j \in i .. (columns - 1) : NonZero(At(table, i, j))

\* for i in 0..rows: the jagged check of row i, then the scan of row i.
\* Returns "Jagged" at the first row whose length differs from `columns`,
\* else the implicit flag as "implicit" / "explicit".
RECURSIVE ScanRows(_, _, _, _, _)
ScanRows(table, i, rows, columns, implicit) ==
    IF i >= rows THEN (IF implicit THEN "implicit" ELSE "explicit")
    ELSE IF RowLen(table, i) # columns THEN "Jagged"
    ELSE ScanRows(table, i + 1, rows, columns,
                  implicit \/ RowImplicit(table, i, columns))

Err(e) == [ok |-> FALSE, err |-> e, r |-> 0, c |-> 0]
Err2(e, r, c) == [ok |-> FALSE, err |-> e, r |-> r, c |-> c]
Classified(kind, table) == [ok |-> TRUE, kind |-> kind, table |-> table]

\* match (rows > columns, implicit)
Classify(rows, columns, implicit) ==
    IF rows > columns
    THEN (IF implicit THEN "AdaptiveImplicit" ELSE "Adaptive")
    ELSE (IF implicit THEN "Implicit" ELSE "Fixed")

\* a validator that checks row lengths before the column count
NewJaggedFirst(table) ==
    IF Len(table) = 0 THEN Err("EmptyTableau")
    ELSE LET rows == Len(table)
             columns == RowLen(table, 0)
             scan == ScanRows(table, 0, rows, columns, FALSE)
         IN  IF scan = "Jagged" THEN Err("JaggedTableau")
             ELSE IF columns > rows THEN Err2("TooManyColumns", rows, columns)
             ELSE Classified(Classify(rows, columns, scan = "implicit"), table)

\* a validator whose implicit scan starts right of the diagonal
NewStrictUpper(table) ==
    IF Len(table) = 0 THEN Err("EmptyTableau")
    ELSE LET rows == Len(table)
             columns == RowLen(table, 0)
             scan == ScanRows([i \in 1 .. rows |->
                                 [j \in 1 .. Len(table[i]) |->
                                    IF j = i THEN Zero ELSE table[i][j]]],
                              0, rows, columns, FALSE)
         IN  IF columns > rows THEN Err2("TooManyColumns", rows, columns)
             ELSE IF scan = "Jagged" THEN Err("JaggedTableau")
             ELSE Classified(Classify(rows, columns, scan = "implicit"), table)

New(table) ==
    IF Len(table) = 0 THEN Err("EmptyTableau")
    ELSE LET rows == Len(table)
             columns == RowLen(table, 0)
             scan == ScanRows(table, 0, rows, columns, FALSE)
         IN  IF columns > rows THEN Err2("TooManyColumns", rows, columns)
             ELSE IF scan = "Jagged" THEN Err("JaggedTableau")
             ELSE Classified(Classify(rows, columns, scan = "implicit"), table)

----------------------------------------------------------------------------
(* RungeKutta::from_matrix and AdaptiveRungeKutta::from_matrix *)

Built(table) == [ok |-> TRUE, table |-> table]

\* an adaptive constructor that reports a square explicit matrix as non-square
AdaptiveFromMatrixNonSquare(rk_matrix) ==
    LET t == New(rk_matrix)
    IN  IF ~t.ok THEN t
        ELSE IF t.kind = "Adaptive" THEN Built(t.table)
        ELSE IF t.kind = "Fixed"
             THEN Err2("NonSquareTableau", Len(t.table), RowLen(t.table, 0))
        ELSE Err("UnsupportedImplicit")

RungeKuttaFromMatrix(rk_matrix) ==
    LET t == New(rk_matrix)
    IN  IF ~t.ok THEN t
        ELSE IF t.kind = "Fixed" THEN Built(t.table)
        ELSE IF t.kind = "Implicit" THEN Err("UnsupportedImplicit")
        ELSE Err2("NonSquareTableau", Len(rk_matrix), RowLen(rk_matrix, 0))

AdaptiveFromMatrix(rk_matrix) ==
    LET t == New(rk_matrix)
    IN  IF ~t.ok THEN t
        ELSE IF t.kind = "Adaptive" THEN Built(t.table)
        ELSE IF t.kind = "Fixed"
             THEN Err2("TooManyColumns", Len(t.table), RowLen(t.table, 0))
        ELSE Err("UnsupportedImplicit")

----------------------------------------------------------------------------
(* The derivative functions handed to the steppers (caller-supplied closures). *)

Forces == {"y", "t", "t_minus_y", "one"}

Force(f, t, y) ==
    CASE f = "y" -> y
      [] f = "t" -> t
      [] f = "t_minus_y" -> RSub(t, y)
      [] f = "one" -> One

----------------------------------------------------------------------------
(* compute_k *)

\* for j in 1..=i { if tableau[i][j] != 0.0 { y_i += k[j-1] * (dt * tableau[i][j]) } }
RECURSIVE StageInput(_, _, _, _, _, _)
StageInput(tableau, i, j, k, dt, y_i) ==
    IF j > i THEN y_i
    ELSE StageInput(tableau, i, j + 1, k, dt,
                    IF NonZero(At(tableau, i, j))
                    THEN RAdd(y_i, RMul(k[j].v, RMul(dt, At(tableau, i, j))))
                    ELSE y_i)

\* for i in 0..order { ...; k.push(force(t, y_i)) }
\* Every element of k records the point (t, y) the derivative was evaluated at
\* and the value v it returned.
RECURSIVE ComputeKFrom(_, _, _, _, _, _, _, _)
ComputeKFrom(tableau, time, state, dt, force, i, order, k) ==
    IF i >= order THEN k
    ELSE LET t == RAdd(time, RMul(dt, At(tableau, i, 0)))
             y_i == StageInput(tableau, i, 1, k, dt, state)
         IN  ComputeKFrom(tableau, time, state, dt, force, i + 1, order,
                          Append(k, [t |-> t, y |-> y_i, v |-> Force(force, t, y_i)]))

ComputeK(tableau, time, state, dt, force) ==
    LET order == RowLen(tableau, 0) - 1
    IN  ComputeKFrom(tableau, time, state, dt, force, 0, order, <<>>)

\* let mut j = 1; for k_j in k { if self.0[row][j] != 0.0 { acc += k_j * (dt * self.0[row][j]) }; j += 1 }
RECURSIVE Combine(_, _, _, _, _, _)
Combine(tableau, row, k, dt, j, acc) ==
    IF j > Len(k) THEN acc
    ELSE Combine(tableau, row, k, dt, j + 1,
                 IF NonZero(At(tableau, row, j))
                 THEN RAdd(acc, RMul(k[j].v, RMul(dt, At(tableau, row, j))))
                 ELSE acc)

----------------------------------------------------------------------------
(* RungeKutta::order and Integrator::step for RungeKutta *)

RungeKuttaOrder(self) == Len(self) - 1

AdaptiveOrder(self) == RowLen(self, 0) - 1

\* the weights row taken one row too early
StepWeightsRowOff(self, time, state, dt, force) ==
    LET order == RungeKuttaOrder(self)
        k == ComputeK(self, time, state[1], dt, force)
        s0 == Combine(self, IF order > 0 THEN order - 1 ELSE order, k, dt, 1, state[1])
    IN  [state |-> [state EXCEPT ![1] = s0], ret |-> s0, k |-> k]

\* state is the caller's buffer (slot 0 is state[1] here); the result holds the
\* buffer after the call, the returned value and the stage evaluations made.
Step(self, time, state, dt, force) ==
    LET order == RungeKuttaOrder(self)
        k == ComputeK(self, time, state[1], dt, force)
        s0 == Combine(self, order, k, dt, 1, state[1])
    IN  [state |-> [state EXCEPT ![1] = s0], ret |-> s0, k |-> k]

----------------------------------------------------------------------------
(* Natural numbers of any size: sequences of limbs in base 2^15, least       *)
(* significant first, without leading zero limbs (zero is <<>>).             *)

LimbBits == 15
LimbBase == 2^LimbBits

Max(x, y) == IF x > y THEN x ELSE y
Min(x, y) == IF x < y THEN x ELSE y

Limb(a, i) == IF i >= 1 /\ i <= Len(a) THEN a[i] ELSE 0

\* drop leading (most significant) zero limbs
RECURSIVE NTrim(_)
NTrim(a) ==
    IF Len(a) = 0 \/ a[Len(a)] # 0 THEN a ELSE NTrim(SubSeq(a, 1, Len(a) - 1))

RECURSIVE NAddFrom(_, _, _, _)
NAddFrom(a, b, i, carry) ==
    IF i > Max(Len(a), Len(b)) THEN (IF carry = 0 THEN <<>> ELSE <<carry>>)
    ELSE LET t == Limb(a, i) + Limb(b, i) + carry
         IN  <<t % LimbBase>> \o NAddFrom(a, b, i + 1, t \div LimbBase)

NAdd(a, b) == NAddFrom(a, b, 1, 0)

\* a * c for 0 <= c < 2^15
RECURSIVE NMulSmallFrom(_, _, _, _)
NMulSmallFrom(a, c, i, carry) ==
    IF i > Len(a) THEN (IF carry = 0 THEN <<>> ELSE <<carry>>)
    ELSE LET t == a[i] * c + carry
         IN  <<t % LimbBase>> \o NMulSmallFrom(a, c, i + 1, t \div LimbBase)

NMulSmall(a, c) == NTrim(NMulSmallFrom(a, c, 1, 0))

\* a * 2^d
NShl(a, d) ==
    IF Len(a) = 0 THEN a
    ELSE [i \in 1 .. (d \div LimbBits) |-> 0] \o NMulSmall(a, 2^(d % LimbBits))

\* a \div 2^d
NShr(a, d) ==
    LET w == d \div LimbBits
        b == d % LimbBits
    IN  NTrim([i \in 1 .. Max(Len(a) - w, 0) |->
                 (a[i + w] \div 2^b) + (Limb(a, i + w + 1) % 2^b) * 2^(LimbBits - b)])

\* a % 2^d
NLow(a, d) ==
    LET w == d \div LimbBits
        b == d % LimbBits
    IN  NTrim([i \in 1 .. Min(Len(a), w + 1) |->
                 IF i <= w THEN a[i] ELSE a[i] % 2^b])

\* a * b
RECURSIVE NMulFrom(_, _, _)
NMulFrom(a, b, i) ==
    IF i > Len(b) THEN <<>>
    ELSE NAdd([j \in 1 .. (i - 1) |-> 0] \o NMulSmall(a, b[i]), NMulFrom(a, b, i + 1))

NMul(a, b) == NTrim(NMulFrom(a, b, 1))

\* number of binary digits of an integer 0 <= x < 2^15
RECURSIVE IntBitLen(_)
IntBitLen(x) == IF x = 0 THEN 0 ELSE 1 + IntBitLen(x \div 2)

\* number of binary digits of a
NBitLen(a) ==
    IF Len(a) = 0 THEN 0 ELSE LimbBits * (Len(a) - 1) + IntBitLen(a[Len(a)])

RECURSIVE IntTrailingZeros(_)
IntTrailingZeros(x) == IF x % 2 = 1 THEN 0 ELSE 1 + IntTrailingZeros(x \div 2)

\* number of trailing zero binary digits of a nonzero a
RECURSIVE NTrailingZeros(_)
NTrailingZeros(a) ==
    IF a[1] # 0 THEN IntTrailingZeros(a[1])
    ELSE LimbBits + NTrailingZeros(Tail(a))

\* the limbs of a natural number below 2^31
RECURSIVE NOf(_)
NOf(x) == IF x = 0 THEN <<>> ELSE <<x % LimbBase>> \o NOf(x \div LimbBase)

----------------------------------------------------------------------------
(* f64 scalars (IEEE-754 binary64, round to nearest, ties to even), for the  *)
(* runs whose R and S are f64. A non-negative finite value is                *)
(* [m |-> n, e |-> exponent], the odd natural number n times 2^e; zero is    *)
(* [m |-> <<>>, e |-> 0]. Exponents stay far inside the normal range in the  *)
(* runs modelled, so subnormals and infinities do not arise.                 *)

MantissaBits == 53

FZero == [m |-> <<>>, e |-> 0]

\* the value n * 2^e with n's trailing zeros moved into the exponent
FCanon(n, e) ==
    IF Len(n) = 0 THEN FZero
    ELSE LET z == NTrailingZeros(n)
         IN  [m |-> NShr(n, z), e |-> e + z]

\* the f64 nearest to n * 2^e: n is cut to MantissaBits digits, rounding to
\* nearest and a tie to the even neighbour
FRound(n, e) ==
    IF NBitLen(n) <= MantissaBits THEN FCanon(n, e)
    ELSE LET s == NBitLen(n) - MantissaBits
             q == NShr(n, s)
             low == NLow(n, s)
             \* low compared with half a unit of q: 2^(s-1)
             aboveHalf == NBitLen(low) = s /\ NTrailingZeros(low) < s - 1
             tie == NBitLen(low) = s /\ NTrailingZeros(low) = s - 1
             up == aboveHalf \/ (tie /\ q[1] % 2 = 1)
         IN  FCanon(IF up THEN NAdd(q, <<1>>) ELSE q, e + s)

FAdd(x, y) ==
    IF Len(x.m) = 0 THEN y
    ELSE IF Len(y.m) = 0 THEN x
    ELSE LET e == Min(x.e, y.e)
         IN  FRound(NAdd(NShl(x.m, x.e - e), NShl(y.m, y.e - e)), e)

FMul(x, y) ==
    IF Len(x.m) = 0 \/ Len(y.m) = 0 THEN FZero
    ELSE FRound(NMul(x.m, y.m), x.e + y.e)

\* `x != 0.0`
FNonZero(x) == Len(x.m) > 0

RECURSIVE Log2(_)
Log2(d) == IF d <= 1 THEN 0 ELSE 1 + Log2(d \div 2)

\* the f64 literal of a non-negative rational n / 2^k (exactly representable)
F64(c) == FCanon(NOf(c[1]), -Log2(c[2]))

\* R::repr(tableau[i][j]) for R = f64
FAt(t, i, j) == F64(At(t, i, j))

\* the derivative of examples/exp_comparison.rs: f(_t, y) = y
ExpDerivative(t, y) == y

\* compute_k, RungeKutta::step for R = S = f64 and the derivative f(t, y) = y
RECURSIVE FStageInput(_, _, _, _, _, _)
FStageInput(tableau, i, j, k, dt, y_i) ==
    IF j > i THEN y_i
    ELSE FStageInput(tableau, i, j + 1, k, dt,
                     IF NonZero(At(tableau, i, j))
                     THEN FAdd(y_i, FMul(k[j].v, FMul(dt, FAt(tableau, i, j))))
                     ELSE y_i)

RECURSIVE FComputeKFrom(_, _, _, _, _, _, _)
FComputeKFrom(tableau, time, state, dt, i, order, k) ==
    IF i >= order THEN k
    ELSE LET t == FAdd(time, FMul(dt, FAt(tableau, i, 0)))
             y_i == FStageInput(tableau, i, 1, k, dt, state)
         IN  FComputeKFrom(tableau, time, state, dt, i + 1, order,
                           Append(k, [t |-> t, y |-> y_i, v |-> ExpDerivative(t, y_i)]))

FComputeK(tableau, time, state, dt) ==
    LET order == RowLen(tableau, 0) - 1
    IN  FComputeKFrom(tableau, time, state, dt, 0, order, <<>>)

RECURSIVE FCombine(_, _, _, _, _, _)
FCombine(tableau, row, k, dt, j, acc) ==
    IF j > Len(k) THEN acc
    ELSE FCombine(tableau, row, k, dt, j + 1,
                  IF NonZero(At(tableau, row, j))
                  THEN FAdd(acc, FMul(k[j].v, FMul(dt, FAt(tableau, row, j))))
                  ELSE acc)

\* the weighted combination with dt left out of the increment
FStepWithoutDt(self, time, state, dt) ==
    LET order == RungeKuttaOrder(self)
        k == FComputeK(self, time, state[1], dt)
        s0 == FCombine(self, order, k, F64(One), 1, state[1])
    IN  [state |-> [state EXCEPT ![1] = s0], ret |-> s0, k |-> k]

FStep(self, time, state, dt) ==
    LET order == RungeKuttaOrder(self)
        k == FComputeK(self, time, state[1], dt)
        s0 == FCombine(self, order, k, dt, 1, state[1])
    IN  [state |-> [state EXCEPT ![1] = s0], ret |-> s0, k |-> k]

----------------------------------------------------------------------------
(* AdaptiveIntegrator for AdaptiveRungeKutta. A buffer slot is a pair         *)
(* <<R, S>>; the code's state[0].0 is state[1][1] here.                       *)

\* Box::new([(t0, state.clone()), (ds, state.clone())])
AdaptiveInit(t0, state, ds) == << <<t0, state>>, <<ds, state>> >>

\* Metric::distance of the metric the caller passes (InnerProductMetric on
\* scalars: the absolute difference)
Distance(a, b) == RAbs(RSub(a, b))

\* a pass that builds its stages on slot 1's estimate instead of the state
TrialFromEstimate(self, state, time, dt, force) ==
    LET order == AdaptiveOrder(self)
        k == ComputeK(self, time, state[2][2], dt, force)
        est1 == Combine(self, order, k, dt, 1, state[1][2])
        est2 == Combine(self, order + 1, k, dt, 1, state[1][2])
    IN  [k |-> k, est1 |-> est1, est2 |-> est2, err |-> Distance(est1, est2)]

\* one pass of the loop body up to the test: the stages, both estimates, err
Trial(self, state, time, dt, force) ==
    LET order == AdaptiveOrder(self)
        k == ComputeK(self, time, state[1][2], dt, force)
        est1 == Combine(self, order, k, dt, 1, state[1][2])
        est2 == Combine(self, order + 1, k, dt, 1, state[1][2])
    IN  [k |-> k, est1 |-> est1, est2 |-> est2, err |-> Distance(est1, est2)]

\* the accepting branch with the two estimates stored the other way round
AcceptSwapped(state, dt, est1, est2) ==
    LET next_dt == RMul(dt, Rat(3, 2))
    IN  << <<RAdd(state[1][1], dt), est2>>, <<next_dt, est1>> >>

\* if err < ds { next_dt = dt * 1.5; state[0].0 += dt; state[0].1 = est1;
\*               state[1] = (next_dt, est2); return state[0].clone() }
Accept(state, dt, est1, est2) ==
    LET next_dt == RMul(dt, Rat(3, 2))
    IN  << <<RAdd(state[1][1], dt), est1>>, <<next_dt, est2>> >>

\* the rejecting branch shrinking the step by subtraction
RejectSubtracting(dt) == RSub(dt, Rat(1, 2))

\* the rejecting branch with a smallest trial step of 1/4
RejectClamped(dt) ==
    LET half == RMul(dt, Rat(1, 2))
    IN  IF RLess(RAbs(half), Rat(1, 4)) THEN dt ELSE half

\* else { dt *= 0.5 }
Reject(dt) == RMul(dt, Rat(1, 2))

----------------------------------------------------------------------------
(* VelIntegrator for VelocityVerlet. A buffer slot is a pair <<D, S>>; the    *)
(* closures return such pairs and the code reads their second component.     *)

\* D::default()
DefaultD == "default"

\* S::zero()
SZero == Zero

\* the velocity and force closures handed to step_with_vel
VelFns == {"y", "one", "t_minus_y"}
ForceFns == {"neg_y", "t", "one"}

Closure(f, t, y) ==
    <<"aux", CASE f = "neg_y" -> RNeg(y)
               [] OTHER -> Force(f, t, y)>>

\* Box::new([(Default::default(), state), (Default::default(), S::zero())])
InitWithVel(state) == << <<DefaultD, state>>, <<DefaultD, SZero>> >>

\* step_with_vel with the second half-kick made with the old accumulator
StepWithVelOldKick(time, state, dt, velocity, force) ==
    LET s1 == state[1]
        a1 == state[2]
        half == RMul(dt, Rat(1, 2))
        vel == Closure(velocity, time, a1[2])
        mid == RAdd(RAdd(s1[2], RMul(a1[2], dt)),
                    RMul(vel[2], RMul(RMul(dt, dt), Rat(1, 2))))
        sA == RAdd(s1[2], RMul(a1[2], half))
        frc == Closure(force, RAdd(time, dt), mid)
        sB == RAdd(sA, RMul(a1[2], half))
    IN  [state |-> << <<s1[1], sB>>, <<a1[1], frc[2]>> >>,
         ret |-> <<s1[1], sB>>,
         velEvals |-> << <<time, a1[2]>> >>,
         forceEvals |-> << <<RAdd(time, dt), mid>> >>]

\* the result holds the buffer after the call, the returned pair and the
\* arguments of every evaluation of the two closures
StepWithVel(time, state, dt, velocity, force) ==
    LET s1 == state[1]
        a1 == state[2]
        half == RMul(dt, Rat(1, 2))
        vel == Closure(velocity, time, a1[2])
        mid == RAdd(RAdd(s1[2], RMul(a1[2], dt)),
                    RMul(vel[2], RMul(RMul(dt, dt), Rat(1, 2))))
        sA == RAdd(s1[2], RMul(a1[2], half))
        frc == Closure(force, RAdd(time, dt), mid)
        sB == RAdd(sA, RMul(frc[2], half))
    IN  [state |-> << <<s1[1], sB>>, <<a1[1], frc[2]>> >>,
         ret |-> <<s1[1], sB>>,
         velEvals |-> << <<time, a1[2]>> >>,
         forceEvals |-> << <<RAdd(time, dt), mid>> >>]

----------------------------------------------------------------------------
(* Run-time failures of the index and size computations. *)

Profiles == {"debug", "release"}

\* usize `n - 1`: a panic with overflow checks (debug), usize::MAX without
UsizeSub1(n, prof) ==
    IF n >= 1 THEN [panic |-> FALSE, wrapped |-> FALSE, val |-> n - 1]
    ELSE IF prof = "debug" THEN [panic |-> TRUE, wrapped |-> FALSE, val |-> 0]
    ELSE [panic |-> FALSE, wrapped |-> TRUE, val |-> 0]

\* compute_k: tableau[0].len()-1, Vec::with_capacity(order), tableau[i][0], tableau[i][j]
ComputeKPanics(tableau, prof) ==
    \/ Len(tableau) = 0
    \/ /\ Len(tableau) > 0
       /\ LET o == UsizeSub1(RowLen(tableau, 0), prof)
          IN  \/ o.panic
              \/ o.wrapped      \* Vec::with_capacity(usize::MAX): capacity overflow
              \/ \E i \in 0 .. (o.val - 1) :
                    \/ i >= Len(tableau)
                    \/ /\ i < Len(tableau)
                       /\ \/ RowLen(tableau, i) = 0
                          \/ \E j \in 1 .. i : j >= RowLen(tableau, i)

\* RungeKutta::order(): self.0.len()-1
RungeKuttaOrderOutcome(self, prof) ==
    LET o == UsizeSub1(Len(self), prof)
    IN  IF o.panic THEN "panic" ELSE IF o.wrapped THEN "wrapped" ELSE "ok"

\* AdaptiveRungeKutta::order(): self.0[0].len()-1
AdaptiveOrderOutcome(self, prof) ==
    IF Len(self) = 0 THEN "panic"
    ELSE LET o == UsizeSub1(RowLen(self, 0), prof)
         IN  IF o.panic THEN "panic" ELSE IF o.wrapped THEN "wrapped" ELSE "ok"

\* RungeKutta::step: order(), compute_k, state[0], self.0[order][j]
StepOutcome(self, bufLen, prof) ==
    IF \/ RungeKuttaOrderOutcome(self, prof) # "ok"
       \/ bufLen < 1
       \/ ComputeKPanics(self, prof)
       \/ \E j \in 1 .. (RowLen(self, 0) - 1) :
             j >= RowLen(self, RungeKuttaOrder(self))
    THEN "panic" ELSE "ok"

\* adaptive_step: order(), state[1], state[0], compute_k,
\* self.0[order][j], self.0[order+1][j]
AdaptiveStepOutcome(self, bufLen, prof) ==
    IF \/ AdaptiveOrderOutcome(self, prof) = "panic"
       \/ bufLen < 2
       \/ ComputeKPanics(self, prof)
       \/ LET order == AdaptiveOrder(self)
          IN  \E j \in 1 .. order :
                 \/ order + 1 >= Len(self)
                 \/ /\ order + 1 < Len(self)
                    /\ \/ j >= RowLen(self, order)
                       \/ j >= RowLen(self, order + 1)
    THEN "panic" ELSE "ok"

----------------------------------------------------------------------------
(* Validation machine: a caller builds integrators from a matrix, then calls   *)
(* order(), step and adaptive_step on whatever was built.                      *)

SeqsUpTo(S, n) == UNION {[1 .. k -> S] : k \in 0 .. n}

Coefficients == {Zero, One}

Matrices == SeqsUpTo(SeqsUpTo(Coefficients, MaxCols), MaxRows)

NotCalled == Err("not called")

NoRuntime == [fixedOrder |-> "none", fixedStep |-> "none",
              adaptiveOrder |-> "none", adaptiveStep |-> "none"]

\* The variables of the machines a specification does not use keep these values.
NoCall == [called |-> FALSE]

ParkedV == [matrix |-> <<>>, fixedRes |-> NotCalled, adaptRes |-> NotCalled,
            runtime |-> NoRuntime]

ParkedRK == [self |-> <<>>, state |-> <<>>, calls |-> 0, last |-> NoCall]

ParkedEU == [state |-> <<>>, calls |-> 0, last |-> NoCall]

ParkedAD == [self |-> <<>>, force |-> "none", seed |-> Zero, state |-> <<>>,
             pc |-> "idle", call |-> NoCall, calls |-> 0, last |-> NoCall]

ParkedVV == [state |-> <<>>, calls |-> 0, last |-> NoCall]

ParkedCC == [self |-> <<>>, prog |-> <<>>, buf |-> <<>>, pc |-> <<>>,
             frame |-> <<>>, out |-> <<>>]

InitV ==
    /\ matrix \in Matrices
    /\ fixedRes = NotCalled
    /\ adaptRes = NotCalled
    /\ runtime = NoRuntime
    /\ rkSelf = ParkedRK.self
    /\ rkState = ParkedRK.state
    /\ rkCalls = ParkedRK.calls
    /\ rkLast = ParkedRK.last
    /\ euState = ParkedEU.state
    /\ euCalls = ParkedEU.calls
    /\ euLast = ParkedEU.last
    /\ adSelf = ParkedAD.self
    /\ adForce = ParkedAD.force
    /\ adSeed = ParkedAD.seed
    /\ adState = ParkedAD.state
    /\ adPc = ParkedAD.pc
    /\ adCall = ParkedAD.call
    /\ adCalls = ParkedAD.calls
    /\ adLast = ParkedAD.last
    /\ vvState = ParkedVV.state
    /\ vvCalls = ParkedVV.calls
    /\ vvLast = ParkedVV.last
    /\ ccSelf = ParkedCC.self
    /\ ccProg = ParkedCC.prog
    /\ ccBuf = ParkedCC.buf
    /\ ccPc = ParkedCC.pc
    /\ ccFrame = ParkedCC.frame
    /\ ccOut = ParkedCC.out

CallRungeKuttaFromMatrix ==
    /\ fixedRes = NotCalled
    /\ fixedRes' = RungeKuttaFromMatrix(matrix)
    /\ UNCHANGED <<matrix, adaptRes, runtime>>
    /\ UNCHANGED othersV

CallAdaptiveFromMatrix ==
    /\ adaptRes = NotCalled
    /\ adaptRes' = AdaptiveFromMatrix(matrix)
    /\ UNCHANGED <<matrix, fixedRes, runtime>>
    /\ UNCHANGED othersV

CallRungeKuttaOrder ==
    /\ fixedRes.ok
    /\ runtime.fixedOrder = "none"
    /\ \E prof \in Profiles :
          runtime' = [runtime EXCEPT
                        !.fixedOrder = RungeKuttaOrderOutcome(fixedRes.table, prof)]
    /\ UNCHANGED <<matrix, fixedRes, adaptRes>>
    /\ UNCHANGED othersV

CallStep ==
    /\ fixedRes.ok
    /\ runtime.fixedStep = "none"
    /\ \E prof \in Profiles :
          runtime' = [runtime EXCEPT
                        !.fixedStep = StepOutcome(fixedRes.table, 1, prof)]
    /\ UNCHANGED <<matrix, fixedRes, adaptRes>>
    /\ UNCHANGED othersV

CallAdaptiveOrder ==
    /\ adaptRes.ok
    /\ runtime.adaptiveOrder = "none"
    /\ \E prof \in Profiles :
          runtime' = [runtime EXCEPT
                        !.adaptiveOrder = AdaptiveOrderOutcome(adaptRes.table, prof)]
    /\ UNCHANGED <<matrix, fixedRes, adaptRes>>
    /\ UNCHANGED othersV

CallAdaptiveStep ==
    /\ adaptRes.ok
    /\ runtime.adaptiveStep = "none"
    /\ \E prof \in Profiles :
          runtime' = [runtime EXCEPT
                        !.adaptiveStep = AdaptiveStepOutcome(adaptRes.table, 2, prof)]
    /\ UNCHANGED <<matrix, fixedRes, adaptRes>>
    /\ UNCHANGED othersV

NextV ==
    \/ CallRungeKuttaFromMatrix
    \/ CallAdaptiveFromMatrix
    \/ CallRungeKuttaOrder
    \/ CallStep
    \/ CallAdaptiveOrder
    \/ CallAdaptiveStep

----------------------------------------------------------------------------
(* The named constant tableaux. *)

R0 == Zero
R1 == One

RK1 == << <<R0, R0>>,
          <<R0, R1>> >>

EULER == RK1

RK2 == << <<R0, R0, R0>>,
          <<Rat(1, 2), Rat(1, 2), R0>>,
          <<R0, R0, R1>> >>

HEUN2 == << <<R0, R0, R0>>,
            <<R1, R1, R0>>,
            <<R0, Rat(1, 2), Rat(1, 2)>> >>

RALSTON == << <<R0, R0, R0>>,
              <<Rat(2, 3), Rat(2, 3), R0>>,
              <<R0, Rat(1, 4), Rat(3, 4)>> >>

RK3 == << <<R0, R0, R0, R0>>,
          <<Rat(1, 2), Rat(1, 2), R0, R0>>,
          <<R1, Rat(-1, 1), Rat(2, 1), R0>>,
          <<R0, Rat(1, 6), Rat(2, 3), Rat(1, 6)>> >>

HEUN3 == << <<R0, R0, R0, R0>>,
            <<Rat(1, 3), Rat(1, 3), R0, R0>>,
            <<Rat(2, 3), R0, Rat(2, 3), R0>>,
            <<R0, Rat(1, 4), R0, Rat(3, 4)>> >>

RK4 == << <<R0, R0, R0, R0, R0>>,
          <<Rat(1, 2), Rat(1, 2), R0, R0, R0>>,
          <<Rat(1, 2), R0, Rat(1, 2), R0, R0>>,
          <<R1, R0, R0, R1, R0>>,
          <<R0, Rat(1, 6), Rat(1, 3), Rat(1, 3), Rat(1, 6)>> >>

RK_3_8 == << <<R0, R0, R0, R0, R0>>,
             <<Rat(1, 3), Rat(1, 3), R0, R0, R0>>,
             <<Rat(2, 3), Rat(-1, 3), R1, R0, R0>>,
             <<R1, R1, Rat(-1, 1), R1, R0>>,
             <<R0, Rat(1, 8), Rat(3, 8), Rat(3, 8), Rat(1, 8)>> >>

EULER_HEUN == << <<R0, R0, R0>>,
                 <<R1, R1, R0>>,
                 <<R0, Rat(1, 2), Rat(1, 2)>>,
                 <<R0, R1, R0>> >>

MIDPOINT == RK2

BOGACKI_SHAMPINE == << <<R0, R0, R0, R0, R0>>,
                       <<Rat(1, 2), Rat(1, 2), R0, R0, R0>>,
                       <<Rat(3, 4), R0, Rat(3, 4), R0, R0>>,
                       <<R1, Rat(2, 9), Rat(1, 3), Rat(4, 9), R0>>,
                       <<R0, Rat(2, 9), Rat(1, 3), Rat(4, 9), R0>>,
                       <<R0, Rat(7, 24), Rat(1, 4), Rat(1, 3), Rat(1, 8)>> >>

RK_FELBERG == << <<R0, R0, R0, R0, R0, R0, R0>>,
                 <<Rat(1, 4), Rat(1, 4), R0, R0, R0, R0, R0>>,
                 <<Rat(3, 8), Rat(3, 32), Rat(9, 32), R0, R0, R0, R0>>,
                 <<Rat(12, 13), Rat(1932, 2197), Rat(-7200, 2197), Rat(7296, 2197), R0, R0, R0>>,
                 <<R1, Rat(439, 216), Rat(-8, 1), Rat(3680, 513), Rat(-845, 4104), R0, R0>>,
                 <<Rat(1, 2), Rat(-8, 27), Rat(2, 1), Rat(-3544, 2565), Rat(1859, 4104), Rat(-11, 40), R0>>,
                 <<R0, Rat(16, 135), R0, Rat(6656, 12825), Rat(28561, 56430), Rat(-9, 50), Rat(2, 55)>>,
                 <<R0, Rat(25, 216), R0, Rat(1408, 2565), Rat(2197, 4104), Rat(-1, 5), R0>> >>

DORMAND_PRINCE == << <<R0, R0, R0, R0, R0, R0, R0, R0>>,
                     <<Rat(1, 5), Rat(1, 5), R0, R0, R0, R0, R0, R0>>,
                     <<Rat(3, 10), Rat(3, 40), Rat(9, 40), R0, R0, R0, R0, R0>>,
                     <<Rat(2, 5), Rat(44, 45), Rat(-56, 15), Rat(32, 9), R0, R0, R0, R0>>,
                     <<Rat(8, 9), Rat(19372, 6561), Rat(-25360, 2187), Rat(64448, 6561), Rat(-212, 729), R0, R0, R0>>,
                     <<R1, Rat(9017, 3168), Rat(-355, 33), Rat(46732, 5247), Rat(49, 176), Rat(-5103, 18656), R0, R0>>,
                     <<R1, Rat(35, 384), R0, Rat(500, 1113), Rat(125, 192), Rat(-2187, 6784), Rat(11, 84), R0>>,
                     <<R0, Rat(35, 384), R0, Rat(500, 1113), Rat(125, 192), Rat(-2187, 6784), Rat(11, 84), R0>>,
                     <<R0, Rat(5179, 57600), R0, Rat(7571, 16695), Rat(393, 640), Rat(-92097, 339200), Rat(187, 2100), Rat(1, 4)>> >>

\* the matrices of the named RungeKutta constants
FixedConstants == {EULER, MIDPOINT, RK1, RK2, HEUN2, RALSTON, RK3, HEUN3, RK4, RK_3_8}

\* the matrices of the named AdaptiveRungeKutta constants
AdaptiveConstants == {EULER_HEUN, BOGACKI_SHAMPINE, RK_FELBERG, DORMAND_PRINCE}

----------------------------------------------------------------------------
(* The validation machine started on the named constants' matrices as well    *)
(* as on the small matrices.                                                  *)

InitK ==
    /\ matrix \in Matrices \cup FixedConstants \cup AdaptiveConstants
    /\ fixedRes = NotCalled
    /\ adaptRes = NotCalled
    /\ runtime = NoRuntime
    /\ rkSelf = ParkedRK.self
    /\ rkState = ParkedRK.state
    /\ rkCalls = ParkedRK.calls
    /\ rkLast = ParkedRK.last
    /\ euState = ParkedEU.state
    /\ euCalls = ParkedEU.calls
    /\ euLast = ParkedEU.last
    /\ adSelf = ParkedAD.self
    /\ adForce = ParkedAD.force
    /\ adSeed = ParkedAD.seed
    /\ adState = ParkedAD.state
    /\ adPc = ParkedAD.pc
    /\ adCall = ParkedAD.call
    /\ adCalls = ParkedAD.calls
    /\ adLast = ParkedAD.last
    /\ vvState = ParkedVV.state
    /\ vvCalls = ParkedVV.calls
    /\ vvLast = ParkedVV.last
    /\ ccSelf = ParkedCC.self
    /\ ccProg = ParkedCC.prog
    /\ ccBuf = ParkedCC.buf
    /\ ccPc = ParkedCC.pc
    /\ ccFrame = ParkedCC.frame
    /\ ccOut = ParkedCC.out

SpecK == InitK /\ [][NextV]_vars

----------------------------------------------------------------------------
(* Fixed-step machine: a caller threads one buffer through step calls. *)

\* Integrator::init: Box::new([state])
IntegratorInit(state) == <<state>>

\* square matrices RungeKutta::from_matrix accepts
BuiltFixed == { << <<R0>> >>,
                << <<R0, R0>>, <<R1, R0>> >>,
                << <<R0, R0, R0>>, <<R1, R0, R0>>, <<R1, R1, R0>> >> }

FixedTableaux == {RK1, RK2, HEUN2, RALSTON, RK3, HEUN3, RK4, RK_3_8} \cup BuiltFixed

InitialStates == {Rat(1, 1), Rat(2, 1), Rat(-1, 2)}
Times == {Rat(0, 1), Rat(1, 1)}
StepSizes == {Rat(1, 2), Rat(1, 1), Rat(-1, 4)}

InitRK ==
    /\ rkSelf \in FixedTableaux
    /\ rkState \in {IntegratorInit(s) : s \in InitialStates}
    /\ rkCalls = 0
    /\ rkLast = NoCall
    /\ matrix = ParkedV.matrix
    /\ fixedRes = ParkedV.fixedRes
    /\ adaptRes = ParkedV.adaptRes
    /\ runtime = ParkedV.runtime
    /\ euState = ParkedEU.state
    /\ euCalls = ParkedEU.calls
    /\ euLast = ParkedEU.last
    /\ adSelf = ParkedAD.self
    /\ adForce = ParkedAD.force
    /\ adSeed = ParkedAD.seed
    /\ adState = ParkedAD.state
    /\ adPc = ParkedAD.pc
    /\ adCall = ParkedAD.call
    /\ adCalls = ParkedAD.calls
    /\ adLast = ParkedAD.last
    /\ vvState = ParkedVV.state
    /\ vvCalls = ParkedVV.calls
    /\ vvLast = ParkedVV.last
    /\ ccSelf = ParkedCC.self
    /\ ccProg = ParkedCC.prog
    /\ ccBuf = ParkedCC.buf
    /\ ccPc = ParkedCC.pc
    /\ ccFrame = ParkedCC.frame
    /\ ccOut = ParkedCC.out

CallFixedStep ==
    /\ rkCalls < MaxSteps
    /\ \E time \in Times, dt \in StepSizes, force \in Forces :
          LET res == Step(rkSelf, time, rkState, dt, force)
          IN  /\ rkState' = res.state
              /\ rkLast' = [called |-> TRUE, time |-> time, dt |-> dt,
                            force |-> force, before |-> rkState,
                            ret |-> res.ret, k |-> res.k]
    /\ rkCalls' = rkCalls + 1
    /\ UNCHANGED rkSelf
    /\ UNCHANGED othersRK

NextRK == CallFixedStep

SpecV == InitV /\ [][NextV]_vars

SpecRK == InitRK /\ [][NextRK]_vars

----------------------------------------------------------------------------
(* The f64 Euler run: examples/exp_comparison.rs threads y1 through          *)
(* EULER.step(t, y1, dt, f) with f(t, y) = y, dt = 0.125 and y1 = [1.0].     *)

EulerDt == F64(Rat(1, 8))

\* the time arguments tried: the example's t = n * dt, and two fixed ones
EulerTimes(n) == {F64(Rat(n, 8)), F64(Rat(0, 1)), F64(Rat(1, 1))}

InitEU ==
    /\ euState = IntegratorInit(F64(One))
    /\ euCalls = 0
    /\ euLast = NoCall
    /\ matrix = ParkedV.matrix
    /\ fixedRes = ParkedV.fixedRes
    /\ adaptRes = ParkedV.adaptRes
    /\ runtime = ParkedV.runtime
    /\ rkSelf = ParkedRK.self
    /\ rkState = ParkedRK.state
    /\ rkCalls = ParkedRK.calls
    /\ rkLast = ParkedRK.last
    /\ adSelf = ParkedAD.self
    /\ adForce = ParkedAD.force
    /\ adSeed = ParkedAD.seed
    /\ adState = ParkedAD.state
    /\ adPc = ParkedAD.pc
    /\ adCall = ParkedAD.call
    /\ adCalls = ParkedAD.calls
    /\ adLast = ParkedAD.last
    /\ vvState = ParkedVV.state
    /\ vvCalls = ParkedVV.calls
    /\ vvLast = ParkedVV.last
    /\ ccSelf = ParkedCC.self
    /\ ccProg = ParkedCC.prog
    /\ ccBuf = ParkedCC.buf
    /\ ccPc = ParkedCC.pc
    /\ ccFrame = ParkedCC.frame
    /\ ccOut = ParkedCC.out

CallEulerStep ==
    /\ euCalls < MaxEulerSteps
    /\ \E time \in EulerTimes(euCalls) :
          LET res == FStep(EULER, time, euState, EulerDt)
          IN  /\ euState' = res.state
              /\ euLast' = [called |-> TRUE, time |-> time, before |-> euState,
                            ret |-> res.ret]
    /\ euCalls' = euCalls + 1
    /\ UNCHANGED othersEU

NextEU == CallEulerStep

SpecEU == InitEU /\ [][NextEU]_vars

----------------------------------------------------------------------------
(* Adaptive machine: a caller makes one buffer with adaptive_init and calls   *)
(* adaptive_step on it, with a tolerance of its choice on every call. The     *)
(* loop of adaptive_step is taken one pass at a time.                         *)

\* rectangular matrices AdaptiveRungeKutta::from_matrix accepts
BuiltAdaptive == { << <<R0, R0>>, <<R0, R0>>, <<R0, R1>> >>,
                   << <<R0>>, <<R0>>, <<R0>> >> }

AdaptiveTableaux == {EULER_HEUN} \cup BuiltAdaptive

AdaptiveForces == {"y", "t", "one"}
Seeds == {Rat(1, 1), Rat(1, 2), Rat(0, 1), Rat(-1, 1)}
Tolerances == {Rat(1, 2), Rat(1, 8), Rat(0, 1)}
AdaptiveInitialStates == {Rat(1, 1), Rat(2, 1)}

InitAD ==
    /\ adSelf \in AdaptiveTableaux
    /\ adForce \in AdaptiveForces
    /\ adSeed \in Seeds
    /\ adState \in {AdaptiveInit(Zero, y0, adSeed) : y0 \in AdaptiveInitialStates}
    /\ adPc = "idle"
    /\ adCall = NoCall
    /\ adCalls = 0
    /\ adLast = NoCall
    /\ matrix = ParkedV.matrix
    /\ fixedRes = ParkedV.fixedRes
    /\ adaptRes = ParkedV.adaptRes
    /\ runtime = ParkedV.runtime
    /\ rkSelf = ParkedRK.self
    /\ rkState = ParkedRK.state
    /\ rkCalls = ParkedRK.calls
    /\ rkLast = ParkedRK.last
    /\ euState = ParkedEU.state
    /\ euCalls = ParkedEU.calls
    /\ euLast = ParkedEU.last
    /\ vvState = ParkedVV.state
    /\ vvCalls = ParkedVV.calls
    /\ vvLast = ParkedVV.last
    /\ ccSelf = ParkedCC.self
    /\ ccProg = ParkedCC.prog
    /\ ccBuf = ParkedCC.buf
    /\ ccPc = ParkedCC.pc
    /\ ccFrame = ParkedCC.frame
    /\ ccOut = ParkedCC.out

\* let order = self.order(); let mut dt = state[1].0.clone(); let time = state[0].0.clone();
AdaptiveStepEnter ==
    /\ adPc = "idle"
    /\ adCalls < MaxCalls
    /\ \E ds \in Tolerances :
          adCall' = [called |-> TRUE, ds |-> ds, dt |-> adState[2][1],
                     time |-> adState[1][1], rejects |-> 0, before |-> adState]
    /\ adPc' = "loop"
    /\ UNCHANGED <<adSelf, adForce, adSeed, adState, adCalls, adLast>>
    /\ UNCHANGED othersAD

\* a pass of the loop with err < ds
AdaptiveStepAccept ==
    /\ adPc = "loop"
    /\ LET tr == Trial(adSelf, adState, adCall.time, adCall.dt, adForce)
       IN  /\ RLess(tr.err, adCall.ds)
           /\ adState' = Accept(adState, adCall.dt, tr.est1, tr.est2)
           /\ adLast' = [called |-> TRUE, ds |-> adCall.ds, dt |-> adCall.dt,
                         rejects |-> adCall.rejects, before |-> adCall.before,
                         k |-> tr.k, ret |-> adState'[1]]
    /\ adPc' = "idle"
    /\ adCalls' = adCalls + 1
    /\ UNCHANGED <<adSelf, adForce, adSeed, adCall>>
    /\ UNCHANGED othersAD

\* a pass of the loop with err >= ds
AdaptiveStepReject ==
    /\ adPc = "loop"
    /\ adCall.rejects < MaxRejects
    /\ LET tr == Trial(adSelf, adState, adCall.time, adCall.dt, adForce)
       IN  /\ ~RLess(tr.err, adCall.ds)
           /\ adCall' = [adCall EXCEPT !.dt = Reject(adCall.dt),
                                       !.rejects = adCall.rejects + 1]
    /\ UNCHANGED <<adSelf, adForce, adSeed, adState, adPc, adCalls, adLast>>
    /\ UNCHANGED othersAD

NextAD ==
    \/ AdaptiveStepEnter
    \/ AdaptiveStepAccept
    \/ AdaptiveStepReject

SpecAD == InitAD /\ [][NextAD]_vars

----------------------------------------------------------------------------
(* Velocity-Verlet machine: a caller threads one buffer through               *)
(* step_with_vel calls.                                                       *)

InitVV ==
    /\ vvState \in {InitWithVel(s) : s \in InitialStates}
    /\ vvCalls = 0
    /\ vvLast = NoCall
    /\ matrix = ParkedV.matrix
    /\ fixedRes = ParkedV.fixedRes
    /\ adaptRes = ParkedV.adaptRes
    /\ runtime = ParkedV.runtime
    /\ rkSelf = ParkedRK.self
    /\ rkState = ParkedRK.state
    /\ rkCalls = ParkedRK.calls
    /\ rkLast = ParkedRK.last
    /\ euState = ParkedEU.state
    /\ euCalls = ParkedEU.calls
    /\ euLast = ParkedEU.last
    /\ adSelf = ParkedAD.self
    /\ adForce = ParkedAD.force
    /\ adSeed = ParkedAD.seed
    /\ adState = ParkedAD.state
    /\ adPc = ParkedAD.pc
    /\ adCall = ParkedAD.call
    /\ adCalls = ParkedAD.calls
    /\ adLast = ParkedAD.last
    /\ ccSelf = ParkedCC.self
    /\ ccProg = ParkedCC.prog
    /\ ccBuf = ParkedCC.buf
    /\ ccPc = ParkedCC.pc
    /\ ccFrame = ParkedCC.frame
    /\ ccOut = ParkedCC.out

CallStepWithVel ==
    /\ vvCalls < MaxSteps
    /\ \E time \in Times, dt \in StepSizes, velocity \in VelFns, force \in ForceFns :
          LET res == StepWithVel(time, vvState, dt, velocity, force)
          IN  /\ vvState' = res.state
              /\ vvLast' = [called |-> TRUE, time |-> time, dt |-> dt,
                            velocity |-> velocity, force |-> force,
                            before |-> vvState, ret |-> res.ret,
                            velEvals |-> res.velEvals,
                            forceEvals |-> res.forceEvals]
    /\ vvCalls' = vvCalls + 1
    /\ UNCHANGED othersVV

NextVV == CallStepWithVel

SpecVV == InitVV /\ [][NextVV]_vars

----------------------------------------------------------------------------
(* Two callers of shared descriptors. Every method takes &self and never      *)
(* writes through it; a caller owns its buffer (&mut [..]) and the locals of  *)
(* its running call. A caller makes its calls one after the other; the calls  *)
(* of the two callers interleave between the stage evaluation and the         *)
(* combination of step, and between the passes of adaptive_step's loop.       *)

Callers == {1, 2}

\* all running calls keeping their locals in one place
FrameShared(p) == 1

\* the locals of a call (k, dt, time) live in the stack frame of that call
Frame(p) == p

NoFrame == [k |-> <<>>, dt |-> Zero, time |-> Zero, rejects |-> 0]

\* what a caller does: the method it calls and the arguments it passes
StepPrograms ==
    { [kind |-> "step", state |-> y0, dt |-> dt, ds |-> Zero,
       velocity |-> "none", force |-> f] :
      y0 \in {Rat(1, 1), Rat(2, 1)}, dt \in {Rat(1, 2), Rat(1, 1)},
      f \in {"y", "t_minus_y"} }

AdaptivePrograms ==
    { [kind |-> "adaptive", state |-> y0, dt |-> seed, ds |-> ds,
       velocity |-> "none", force |-> "y"] :
      y0 \in {Rat(1, 1), Rat(2, 1)}, seed \in {Rat(1, 1), Rat(1, 2)},
      ds \in {Rat(1, 2), Rat(1, 8)} }

VerletPrograms ==
    { [kind |-> "verlet", state |-> y0, dt |-> Rat(1, 2), ds |-> Zero,
       velocity |-> "y", force |-> f] :
      y0 \in {Rat(1, 1), Rat(2, 1)}, f \in {"neg_y", "one"} }

Programs == StepPrograms \cup AdaptivePrograms \cup VerletPrograms

\* init / adaptive_init (t0 = 0) / init_with_vel
InitialBuffer(prog) ==
    CASE prog.kind = "step" -> IntegratorInit(prog.state)
      [] prog.kind = "adaptive" -> AdaptiveInit(Zero, prog.state, prog.dt)
      [] OTHER -> InitWithVel(prog.state)

\* the time argument of call number n (from 0): the caller's t += dt
CallTime(prog, n) == RMul(Rat(n, 1), prog.dt)

\* the number of calls a caller makes
CallsOf(prog) == IF prog.kind = "adaptive" THEN MaxCalls ELSE MaxSteps

InitCC ==
    /\ ccSelf \in {[rk |-> rk, ad |-> EULER_HEUN] : rk \in {RK2, RK4}}
    /\ ccProg \in [Callers -> Programs]
    /\ ccBuf = [p \in Callers |-> InitialBuffer(ccProg[p])]
    /\ ccPc = [p \in Callers |-> "idle"]
    /\ ccFrame = [p \in Callers |-> NoFrame]
    /\ ccOut = [p \in Callers |-> <<>>]
    /\ matrix = ParkedV.matrix
    /\ fixedRes = ParkedV.fixedRes
    /\ adaptRes = ParkedV.adaptRes
    /\ runtime = ParkedV.runtime
    /\ rkSelf = ParkedRK.self
    /\ rkState = ParkedRK.state
    /\ rkCalls = ParkedRK.calls
    /\ rkLast = ParkedRK.last
    /\ euState = ParkedEU.state
    /\ euCalls = ParkedEU.calls
    /\ euLast = ParkedEU.last
    /\ adSelf = ParkedAD.self
    /\ adForce = ParkedAD.force
    /\ adSeed = ParkedAD.seed
    /\ adState = ParkedAD.state
    /\ adPc = ParkedAD.pc
    /\ adCall = ParkedAD.call
    /\ adCalls = ParkedAD.calls
    /\ adLast = ParkedAD.last
    /\ vvState = ParkedVV.state
    /\ vvCalls = ParkedVV.calls
    /\ vvLast = ParkedVV.last

\* step: let order = self.order(); let k = Self::compute_k(..);
CCStepStages(p) ==
    /\ ccPc[p] = "idle"
    /\ ccProg[p].kind = "step"
    /\ Len(ccOut[p]) < CallsOf(ccProg[p])
    /\ LET prog == ccProg[p]
           time == CallTime(prog, Len(ccOut[p]))
           k == ComputeK(ccSelf.rk, time, ccBuf[p][1], prog.dt, prog.force)
       IN  ccFrame' = [ccFrame EXCEPT ![Frame(p)] = [NoFrame EXCEPT !.k = k]]
    /\ ccPc' = [ccPc EXCEPT ![p] = "combine"]
    /\ UNCHANGED <<ccSelf, ccProg, ccBuf, ccOut>>
    /\ UNCHANGED othersCC

\* step: the weighted combination into state[0]; state[0].clone()
CCStepCombine(p) ==
    /\ ccPc[p] = "combine"
    /\ LET order == RungeKuttaOrder(ccSelf.rk)
           s0 == Combine(ccSelf.rk, order, ccFrame[Frame(p)].k, ccProg[p].dt, 1,
                         ccBuf[p][1])
       IN  /\ ccBuf' = [ccBuf EXCEPT ![p] = [ccBuf[p] EXCEPT ![1] = s0]]
           /\ ccOut' = [ccOut EXCEPT ![p] = Append(ccOut[p], s0)]
    /\ ccPc' = [ccPc EXCEPT ![p] = "idle"]
    /\ UNCHANGED <<ccSelf, ccProg, ccFrame>>
    /\ UNCHANGED othersCC

\* adaptive_step: let mut dt = state[1].0.clone(); let time = state[0].0.clone();
CCAdaptiveEnter(p) ==
    /\ ccPc[p] = "idle"
    /\ ccProg[p].kind = "adaptive"
    /\ Len(ccOut[p]) < CallsOf(ccProg[p])
    /\ ccFrame' = [ccFrame EXCEPT ![Frame(p)] =
                      [NoFrame EXCEPT !.dt = ccBuf[p][2][1], !.time = ccBuf[p][1][1]]]
    /\ ccPc' = [ccPc EXCEPT ![p] = "loop"]
    /\ UNCHANGED <<ccSelf, ccProg, ccBuf, ccOut>>
    /\ UNCHANGED othersCC

\* adaptive_step: one pass of the loop
CCAdaptivePass(p) ==
    /\ ccPc[p] = "loop"
    /\ LET fr == ccFrame[Frame(p)]
           tr == Trial(ccSelf.ad, ccBuf[p], fr.time, fr.dt, ccProg[p].force)
       IN  IF RLess(tr.err, ccProg[p].ds)
           THEN LET after == Accept(ccBuf[p], fr.dt, tr.est1, tr.est2)
                IN  /\ ccBuf' = [ccBuf EXCEPT ![p] = after]
                    /\ ccOut' = [ccOut EXCEPT ![p] = Append(ccOut[p], after[1])]
                    /\ ccPc' = [ccPc EXCEPT ![p] = "idle"]
                    /\ UNCHANGED ccFrame
           ELSE /\ fr.rejects < MaxRejects
                /\ ccFrame' = [ccFrame EXCEPT ![Frame(p)] =
                                  [fr EXCEPT !.dt = Reject(fr.dt),
                                             !.rejects = fr.rejects + 1]]
                /\ UNCHANGED <<ccBuf, ccOut, ccPc>>
    /\ UNCHANGED <<ccSelf, ccProg>>
    /\ UNCHANGED othersCC

\* step_with_vel: it reads its arguments and the caller's buffer only
CCStepWithVel(p) ==
    /\ ccPc[p] = "idle"
    /\ ccProg[p].kind = "verlet"
    /\ Len(ccOut[p]) < CallsOf(ccProg[p])
    /\ LET prog == ccProg[p]
           time == CallTime(prog, Len(ccOut[p]))
           res == StepWithVel(time, ccBuf[p], prog.dt, prog.velocity, prog.force)
       IN  /\ ccBuf' = [ccBuf EXCEPT ![p] = res.state]
           /\ ccOut' = [ccOut EXCEPT ![p] = Append(ccOut[p], res.ret)]
    /\ UNCHANGED <<ccSelf, ccProg, ccPc, ccFrame>>
    /\ UNCHANGED othersCC

NextCC ==
    \E p \in Callers :
        \/ CCStepStages(p)
        \/ CCStepCombine(p)
        \/ CCAdaptiveEnter(p)
        \/ CCAdaptivePass(p)
        \/ CCStepWithVel(p)

SpecCC == InitCC /\ [][NextCC]_vars

----------------------------------------------------------------------------
(* Properties of the validation machine. *)

NonEmpty(m) == Len(m) > 0

Jagged(m) == NonEmpty(m) /\ \E i \in 1 .. Len(m) : Len(m[i]) # Len(m[1])

Rectangular(m) == NonEmpty(m) /\ \A i \in 1 .. Len(m) : Len(m[i]) = Len(m[1])

Square(m) == Rectangular(m) /\ Len(m[1]) = Len(m)

\* some coefficient at [i][j] with j >= i is nonzero
ImplicitCoefficient(m) ==
    \E i \in 1 .. Len(m) : \E j \in i .. Len(m[i]) : m[i][j] # Zero

\* rectangular, non-empty, no more columns than rows
WellFormed(m) == Rectangular(m) /\ Len(m[1]) <= Len(m)

Results == {fixedRes, adaptRes} \ {NotCalled}

\* C1 as stated: for every non-empty matrix in which some row has a length
\* different from row 0, both constructors return JaggedTableau, also when
\* row 0 has more columns than the matrix has rows.
C1_JaggedAlwaysJaggedTableau ==
    Jagged(matrix) => \A res \in Results : res = Err("JaggedTableau")

\* C1 amended: the checks are made in the order non-empty, column count of
\* row 0 against the row count, equal row lengths: a matrix with a row of
\* another length than row 0 gives TooManyColumns(rows, len(row 0)) when row 0
\* is longer than the matrix has rows, and JaggedTableau otherwise.
C1_ColumnCountBeforeJagged ==
    Jagged(matrix) =>
        \A res \in Results :
            IF Len(matrix[1]) > Len(matrix)
            THEN res = Err2("TooManyColumns", Len(matrix), Len(matrix[1]))
            ELSE res = Err("JaggedTableau")

C1_Witness ==
    /\ Jagged(matrix)
    /\ Len(matrix[1]) > Len(matrix)
    /\ fixedRes = Err2("TooManyColumns", Len(matrix), Len(matrix[1]))
    /\ adaptRes = fixedRes

\* C2: for every non-empty square matrix RungeKutta::from_matrix returns
\* UnsupportedImplicit exactly when some coefficient at [i][j] with j >= i
\* (diagonal included) is nonzero, and Ok with that matrix otherwise.
C2_SquareImplicitIffUpperNonzero ==
    (Square(matrix) /\ fixedRes # NotCalled) =>
        IF ImplicitCoefficient(matrix)
        THEN fixedRes = Err("UnsupportedImplicit")
        ELSE fixedRes = Built(matrix)

\* a square matrix whose only nonzero coefficient is on the diagonal is refused
C2_Witness ==
    /\ Square(matrix)
    /\ Len(matrix) = 2
    /\ matrix[2][2] # Zero
    /\ matrix[1] = <<Zero, Zero>>
    /\ matrix[2][1] = Zero
    /\ fixedRes = Err("UnsupportedImplicit")

\* C3 as stated: AdaptiveRungeKutta::from_matrix returns Ok only for matrices
\* with rows == columns + 1, and a matrix with rows > columns + 1 is not
\* accepted as Adaptive.
C3_AdaptiveOnlyRowsEqColumnsPlusOne ==
    adaptRes.ok => Len(matrix) = Len(matrix[1]) + 1

\* C4 as stated: on a well-formed matrix of the wrong classification both
\* constructors fail only with NonSquareTableau or UnsupportedImplicit (a
\* square explicit matrix gives NonSquareTableau from the adaptive
\* constructor), and TooManyColumns is returned only when columns > rows.
C4_WrongClassOnlyNonSquareOrImplicit ==
    /\ WellFormed(matrix) =>
          \A res \in Results :
              ~res.ok => res.err \in {"NonSquareTableau", "UnsupportedImplicit"}
    /\ \A res \in Results :
          (~res.ok /\ res.err = "TooManyColumns") => Len(matrix[1]) > Len(matrix)

\* C4 amended: on a well-formed matrix RungeKutta::from_matrix fails with
\* UnsupportedImplicit when the matrix is square and implicit and with
\* NonSquareTableau(rows, columns) when rows > columns (implicit or not);
\* AdaptiveRungeKutta::from_matrix fails with UnsupportedImplicit when the
\* matrix is implicit (square or not) and with TooManyColumns(rows, columns)
\* when it is square and explicit; TooManyColumns is returned only when
\* columns >= rows.
C4_WrongClassErrors ==
    /\ (WellFormed(matrix) /\ fixedRes # NotCalled) =>
          IF Len(matrix) > Len(matrix[1])
          THEN fixedRes = Err2("NonSquareTableau", Len(matrix), Len(matrix[1]))
          ELSE IF ImplicitCoefficient(matrix)
          THEN fixedRes = Err("UnsupportedImplicit")
          ELSE fixedRes = Built(matrix)
    /\ (WellFormed(matrix) /\ adaptRes # NotCalled) =>
          IF ImplicitCoefficient(matrix)
          THEN adaptRes = Err("UnsupportedImplicit")
          ELSE IF Len(matrix) > Len(matrix[1])
          THEN adaptRes = Built(matrix)
          ELSE adaptRes = Err2("TooManyColumns", Len(matrix), Len(matrix[1]))
    /\ \A res \in Results :
          (~res.ok /\ res.err = "TooManyColumns") => Len(matrix[1]) >= Len(matrix)

\* the adaptive constructor has refused a square explicit matrix
C4_Witness ==
    /\ Square(matrix)
    /\ ~ImplicitCoefficient(matrix)
    /\ Len(matrix) = 2
    /\ fixedRes = Built(matrix)
    /\ adaptRes = Err2("TooManyColumns", 2, 2)

\* C5 as stated: for every integrator from_matrix returned Ok for, order(),
\* step and adaptive_step never fail at run time: no index is out of bounds
\* and no size computation underflows.
C5_NoRuntimeFailure ==
    /\ runtime.fixedOrder \in {"none", "ok"}
    /\ runtime.fixedStep \in {"none", "ok"}
    /\ runtime.adaptiveOrder \in {"none", "ok"}
    /\ runtime.adaptiveStep \in {"none", "ok"}

----------------------------------------------------------------------------
(* Properties of the fixed-step machine. *)

\* sum over j = 1..n of tableau[row][j] * dt * k_{j-1}
RECURSIVE WeightedSum(_, _, _, _, _)
WeightedSum(tableau, row, k, dt, n) ==
    IF n = 0 THEN Zero
    ELSE RAdd(WeightedSum(tableau, row, k, dt, n - 1),
              RMul(RMul(At(tableau, row, n), dt), k[n].v))

\* C6: one step with a square tableau of order n evaluates the derivative
\* exactly n times, stage i at time + dt*c_i on state + sum_{j=1..i}
\* a_ij*dt*k_{j-1} built from earlier stages and the state before the call, and
\* then sets buffer[0] to old_state + sum_{j=1..n} b_j*dt*k_{j-1} with b from
\* the last tableau row; the returned value equals the new buffer[0].
C6_FixedStepFormula ==
    rkLast.called =>
        LET n == Len(rkSelf) - 1
            old == rkLast.before[1]
            k == rkLast.k
        IN  /\ Len(k) = n
            /\ \A i \in 0 .. (n - 1) :
                  /\ k[i + 1].t = RAdd(rkLast.time, RMul(rkLast.dt, At(rkSelf, i, 0)))
                  /\ k[i + 1].y = RAdd(old, WeightedSum(rkSelf, i, k, rkLast.dt, i))
                  /\ k[i + 1].v = Force(rkLast.force, k[i + 1].t, k[i + 1].y)
            /\ Len(rkState) = 1
            /\ rkState[1] = RAdd(old, WeightedSum(rkSelf, Len(rkSelf) - 1, k, rkLast.dt, n))
            /\ rkLast.ret = rkState[1]

\* a second RK4 step on a threaded buffer, with a derivative that reads t and y
C6_Witness ==
    /\ rkLast.called
    /\ rkSelf = RK4
    /\ rkCalls = 2
    /\ rkLast.force = "t_minus_y"
    /\ rkLast.before # IntegratorInit(rkLast.before[1]) \/ rkState # rkLast.before

----------------------------------------------------------------------------
(* Properties of the f64 Euler run. *)

\* 9^n
RECURSIVE Pow9(_)
Pow9(n) == IF n = 0 THEN <<1>> ELSE NMulSmall(Pow9(n - 1), 9)

\* x is the real number (9/8)^n = 9^n * 2^(-3n) (9^n is odd, as x.m is)
IsNineEighthsPow(x, n) == x.e = -3 * n /\ x.m = Pow9(n)

\* C7 as stated: after n steps (n = 1..100) buffer[0] == (9/8)^n.
C7_BufferIsNineEighthsPowN ==
    euCalls \in 1 .. 100 => IsNineEighthsPow(euState[1], euCalls)

\* C7 amended: every step sets the buffer state to the f64 nearest to
\* state * (1 + dt) (one rounding, ties to even), independent of the time
\* argument, and returns it; buffer[0] == (9/8)^n exactly after n = 1..16
\* steps, and from n = 17 on (9^n > 2^53) it is a rounded value different
\* from (9/8)^n.
C7_StepRoundsNineEighths ==
    /\ euLast.called =>
          /\ euState[1] = FMul(euLast.before[1], F64(Rat(9, 8)))
          /\ euLast.ret = euState[1]
          /\ Len(euState) = 1
    /\ euCalls \in 1 .. 16 => IsNineEighthsPow(euState[1], euCalls)
    /\ euCalls >= 17 =>
          /\ ~IsNineEighthsPow(euState[1], euCalls)
          /\ NBitLen(euState[1].m) <= MantissaBits

\* the 17th step has rounded: the buffer is no longer (9/8)^17
C7_Witness ==
    /\ euCalls = 17
    /\ euLast.called
    /\ IsNineEighthsPow(euLast.before[1], 16)
    /\ ~IsNineEighthsPow(euState[1], 17)

----------------------------------------------------------------------------
(* Properties of the adaptive machine. *)

\* C8: whenever adaptive_step returns, with dt the accepted trial step of
\* that call, buffer[0].time has increased by exactly dt, buffer[0].state is
\* est1 (weights of tableau row order), buffer[1] is (1.5*dt, est2) (weights of
\* row order+1), the distance of the two stored states is below the ds of that
\* call, the returned pair equals buffer[0], and the next call starts its
\* search from trial step 1.5*dt whatever ds it is given.
C8_AcceptedStepBuffer ==
    adLast.called =>
        LET order == Len(adSelf[1]) - 1
            old == adLast.before[1]
            dt == adLast.dt
            est1 == RAdd(old[2], WeightedSum(adSelf, order, adLast.k, dt, order))
            est2 == RAdd(old[2], WeightedSum(adSelf, order + 1, adLast.k, dt, order))
        IN  /\ Len(adLast.k) = order
            /\ adLast.ret = <<RAdd(old[1], dt), est1>>
            /\ adPc = "idle" =>
                  /\ adState[1] = <<RAdd(old[1], dt), est1>>
                  /\ adState[2] = <<RMul(Rat(3, 2), dt), est2>>
                  /\ RLess(RAbs(RSub(adState[1][2], adState[2][2])), adLast.ds)
                  /\ adLast.ret = adState[1]
            /\ adPc = "loop" =>
                  /\ adCall.before[1] = adLast.ret
                  /\ adCall.rejects = 0 => adCall.dt = RMul(Rat(3, 2), dt)

\* a second call has entered its loop, with another tolerance, after a call
\* of the Euler-Heun pair on dy/dt = y that returned after a rejection
C8_Witness ==
    /\ adLast.called
    /\ adSelf = EULER_HEUN
    /\ adForce = "y"
    /\ adLast.rejects >= 1
    /\ adPc = "loop"
    /\ adCall.rejects = 0
    /\ adCall.ds # adLast.ds
    /\ adCall.dt = RMul(Rat(3, 2), adLast.dt)

\* the Euler-Heun pair on dy/dt = y
EulerHeunOnExp == adSelf = EULER_HEUN /\ adForce = "y"

\* C9 as stated: for the Euler-Heun pair on dy/dt = y, for every seed given
\* to adaptive_init and every tolerance for which the calls return, the
\* accepted times returned are strictly increasing from call to call.
C9_TimesStrictlyIncreasing ==
    (EulerHeunOnExp /\ adLast.called) =>
        RLess(adLast.before[1][1], adLast.ret[1])

\* C9: for the Euler-Heun pair on dy/dt = y, with exact scalar arithmetic,
\* every call that returns moves the time by its accepted step, whose sign is
\* the sign of the seed given to adaptive_init: for a positive seed the
\* returned times are strictly increasing from call to call, for the seed 0
\* every call returns the initial time, and for a negative seed the returned
\* times are strictly decreasing.
C9_TimesFollowSeedSign ==
    (EulerHeunOnExp /\ adLast.called) =>
        /\ adLast.ret[1] = RAdd(adLast.before[1][1], adLast.dt)
        /\ RLess(Zero, adSeed) => RLess(adLast.before[1][1], adLast.ret[1])
        /\ adSeed = Zero => adLast.ret[1] = adLast.before[1][1]
        /\ RLess(adSeed, Zero) => RLess(adLast.ret[1], adLast.before[1][1])

\* the second call of a run with a positive seed has returned, after a
\* rejection, a time beyond the one the first call returned
C9_Witness ==
    /\ EulerHeunOnExp
    /\ adLast.called
    /\ adCalls = 2
    /\ RLess(Zero, adSeed)
    /\ adLast.rejects >= 1
    /\ RLess(Zero, adLast.before[1][1])
    /\ RLess(adLast.before[1][1], adLast.ret[1])

----------------------------------------------------------------------------
(* Properties of the Velocity-Verlet machine. *)

\* C10: init_with_vel returns the two-slot buffer [state, zero]; one
\* step_with_vel, with s = buffer[0] and a = buffer[1] before the call,
\* evaluates the velocity once at (time, a), then the force once at
\* (time+dt, mid) with mid = s + a*dt + velocity(time, a)*(dt^2/2), and leaves
\* buffer[1] = a' = force(time+dt, mid) and buffer[0] = s + a*(dt/2) +
\* a'*(dt/2), which is also the returned value.
C10_VerletStepFormula ==
    /\ vvCalls = 0 =>
          \E s \in InitialStates : vvState = << <<DefaultD, s>>, <<DefaultD, Zero>> >>
    /\ vvLast.called =>
          LET s == vvLast.before[1][2]
              a == vvLast.before[2][2]
              time == vvLast.time
              dt == vvLast.dt
              half == RMul(dt, Rat(1, 2))
              v == Closure(vvLast.velocity, time, a)[2]
              mid == RAdd(RAdd(s, RMul(a, dt)),
                          RMul(v, RMul(RMul(dt, dt), Rat(1, 2))))
              a2 == Closure(vvLast.force, RAdd(time, dt), mid)[2]
          IN  /\ vvLast.velEvals = << <<time, a>> >>
              /\ vvLast.forceEvals = << <<RAdd(time, dt), mid>> >>
              /\ Len(vvState) = 2
              /\ vvState[2][2] = a2
              /\ vvState[1][2] = RAdd(RAdd(s, RMul(a, half)), RMul(a2, half))
              /\ vvLast.ret = vvState[1]

\* a second step on a threaded buffer: the accumulator it starts from is the
\* force of the first step, and the two half-kicks differ
C10_Witness ==
    /\ vvLast.called
    /\ vvCalls = 2
    /\ vvLast.before[2][2] # Zero
    /\ vvState[2][2] # vvLast.before[2][2]
    /\ vvLast.velocity = "t_minus_y"
    /\ vvLast.force = "neg_y"

----------------------------------------------------------------------------
(* Properties of the two-caller machine. *)

\* adaptive_step as one uninterrupted call: the loop run until it returns
\* (returned is FALSE when MaxRejects passes have all rejected)
RECURSIVE AdaptiveStepCall(_, _, _, _, _, _, _)
AdaptiveStepCall(self, state, time, dt, ds, force, rejects) ==
    LET tr == Trial(self, state, time, dt, force)
    IN  IF RLess(tr.err, ds)
        THEN [state |-> Accept(state, dt, tr.est1, tr.est2), returned |-> TRUE]
        ELSE IF rejects >= MaxRejects
             THEN [state |-> state, returned |-> FALSE]
             ELSE AdaptiveStepCall(self, state, time, Reject(dt), ds, force,
                                   rejects + 1)

\* the buffer and the returned values of a caller that makes the first n
\* calls of its program with nobody else running
RECURSIVE Alone(_, _, _)
Alone(self, prog, n) ==
    IF n = 0 THEN [buf |-> InitialBuffer(prog), out |-> <<>>]
    ELSE LET prev == Alone(self, prog, n - 1)
             time == CallTime(prog, n - 1)
         IN  CASE prog.kind = "step" ->
                    LET r == Step(self.rk, time, prev.buf, prog.dt, prog.force)
                    IN  [buf |-> r.state, out |-> Append(prev.out, r.ret)]
               [] prog.kind = "adaptive" ->
                    LET r == AdaptiveStepCall(self.ad, prev.buf, prev.buf[1][1],
                                              prev.buf[2][1], prog.ds, prog.force, 0)
                    IN  [buf |-> r.state, out |-> Append(prev.out, r.state[1])]
               [] OTHER ->
                    LET r == StepWithVel(time, prev.buf, prog.dt, prog.velocity,
                                         prog.force)
                    IN  [buf |-> r.state, out |-> Append(prev.out, r.ret)]

\* C11: descriptors hold no mutable state: when two callers interleave
\* step / adaptive_step / step_with_vel calls on the same descriptors, each
\* with its own buffer, each caller's buffer and returned values are those of
\* running its calls alone, and two runs with identical inputs produce the
\* identical output sequence.
C11_InterleavingEqualsAlone ==
    /\ \A p \in Callers :
          LET alone == Alone(ccSelf, ccProg[p], Len(ccOut[p]))
          IN  /\ ccOut[p] = alone.out
              /\ ccBuf[p] = alone.buf
    /\ ccProg[1] = ccProg[2] =>
          \A i \in 1 .. Min(Len(ccOut[1]), Len(ccOut[2])) : ccOut[1][i] = ccOut[2][i]

\* both callers are inside their second call on the same Runge-Kutta
\* descriptor, with different inputs, each holding its own stages
C11_Witness ==
    /\ ccProg[1].kind = "step"
    /\ ccProg[2].kind = "step"
    /\ ccProg[1] # ccProg[2]
    /\ ccPc[1] = "combine"
    /\ ccPc[2] = "combine"
    /\ Len(ccOut[1]) = 1
    /\ Len(ccOut[2]) = 1
    /\ ccFrame[1].k # ccFrame[2].k

----------------------------------------------------------------------------
(* Properties of the rejection loop of adaptive_step. *)

\* (1/2)^r
RECURSIVE HalfPow(_)
HalfPow(r) == IF r = 0 THEN One ELSE RMul(Rat(1, 2), HalfPow(r - 1))

\* metric.distance(est1, est2) of the trial the running call is about to make
TrialDistance ==
    Trial(adSelf, adState, adCall.time, adCall.dt, adForce).err

\* a pass whose distance is >= ds does not return and goes on with half the
\* step; a pass whose distance is < ds returns with the step of that pass
LoopPass ==
    adPc = "loop" =>
        IF RLess(TrialDistance, adCall.ds)
        THEN /\ adPc' = "idle"
             /\ adLast'.dt = adCall.dt
             /\ adLast'.rejects = adCall.rejects
        ELSE /\ adPc' = "loop"
             /\ adCall'.dt = RMul(adCall.dt, Rat(1, 2))
             /\ adCall'.rejects = adCall.rejects + 1

\* C12: the rejection loop has no retry cap and no minimum step: after r
\* rejections the trial step is the carried step times (1/2)^r; a trial whose
\* distance is >= ds does not return, so a call with ds <= 0 (the metric is
\* non-negative) stays in the loop for ever; the call returns at the first
\* trial whose distance is < ds.
C12_LoopReturnsOnlyBelowTolerance ==
    /\ [][LoopPass]_vars
    /\ [](adPc = "loop" =>
             adCall.dt = RMul(adCall.before[2][1], HalfPow(adCall.rejects)))
    /\ []((adPc = "loop" /\ adCall.ds[1] <= 0) => [](adPc = "loop"))

\* a call of the Euler-Heun pair on dy/dt = y with ds = 0 has rejected
\* MaxRejects trials and its next trial is rejected too
C12_Witness ==
    /\ EulerHeunOnExp
    /\ adPc = "loop"
    /\ adCall.ds = Zero
    /\ adCall.rejects = MaxRejects
    /\ adCall.dt = RMul(adSeed, HalfPow(MaxRejects))
    /\ ~RLess(TrialDistance, adCall.ds)

\* the stages k were evaluated from the (time, state) of buffer slot 0 with
\* trial step dt: stage i at time + dt*c_i on state + sum_j a_ij*dt*k_{j-1}
StagesFrom(k, slot, dt) ==
    /\ Len(k) = Len(adSelf[1]) - 1
    /\ \A i \in 0 .. (Len(k) - 1) :
          /\ k[i + 1].t = RAdd(slot[1], RMul(dt, At(adSelf, i, 0)))
          /\ k[i + 1].y = RAdd(slot[2], WeightedSum(adSelf, i, k, dt, i))
          /\ k[i + 1].v = Force(adForce, k[i + 1].t, k[i + 1].y)

\* a rejection leaves the buffer and the call's time alone and halves dt
RejectionFrame ==
    (adPc = "loop" /\ adPc' = "loop") =>
        /\ adState' = adState
        /\ adCall'.time = adCall.time
        /\ adCall'.ds = adCall.ds
        /\ adCall'.dt = RMul(adCall.dt, Rat(1, 2))

\* inside a call both slots hold their pre-call values and the trial about
\* to run builds its stages on the pre-call (time, state)
TrialsFromPreCall ==
    adPc = "loop" =>
        /\ adState = adCall.before
        /\ adCall.time = adCall.before[1][1]
        /\ adCall.dt = RMul(adCall.before[2][1], HalfPow(adCall.rejects))
        /\ StagesFrom(Trial(adSelf, adState, adCall.time, adCall.dt, adForce).k,
                      adCall.before[1], adCall.dt)

\* the call that returned after r rejections accepted dt0*(1/2)^r
AcceptedAfterRejections ==
    adLast.called =>
        LET dt0 == adLast.before[2][1]
            dt == RMul(dt0, HalfPow(adLast.rejects))
        IN  /\ adLast.dt = dt
            /\ StagesFrom(adLast.k, adLast.before[1], dt)
            /\ adLast.ret[1] = RAdd(adLast.before[1][1], dt)
            /\ adPc = "idle" =>
                  /\ adState[1][1] = RAdd(adLast.before[1][1], dt)
                  /\ adState[2][1] = RMul(Rat(3, 2), dt)

\* C13: within one adaptive_step call starting from the carried trial step
\* dt0, a rejection changes nothing but the local trial step, which is halved:
\* both buffer slots keep their pre-call values until the accepting trial,
\* every trial recomputes the stages from the same pre-call (time, state), and
\* after r rejections the accepted step is dt0*(1/2)^r: the time advances by it
\* and the carried step becomes 1.5*dt0*(1/2)^r.
C13_RejectionChangesOnlyTrialStep ==
    /\ [][RejectionFrame]_vars
    /\ [](TrialsFromPreCall /\ AcceptedAfterRejections)

\* the second call on a buffer whose slot 1 estimate differs from its state
\* has returned after two or more rejections
C13_Witness ==
    /\ adLast.called
    /\ adPc = "idle"
    /\ adCalls = 2
    /\ adLast.rejects >= 2
    /\ adLast.before[2][2] # adLast.before[1][2]
    /\ adState[2][1] = RMul(Rat(3, 2), RMul(adLast.before[2][1], HalfPow(adLast.rejects)))

----------------------------------------------------------------------------
(* Properties of the named constants. *)

\* what ButcherTableau::new makes of a matrix it accepts
KindOf(table) == IF New(table).ok THEN New(table).kind ELSE "none"

\* C14: every named constant tableau is accepted by the validator for its own
\* kind: RungeKutta::from_matrix on the matrix of EULER/RK1, RK2, HEUN2,
\* RALSTON, RK3, HEUN3, RK4 and RK_3_8 returns Ok with an integrator equal to
\* the constant, AdaptiveRungeKutta::from_matrix on the matrix of EULER_HEUN,
\* BOGACKI_SHAMPINE, RK_FELBERG and DORMAND_PRINCE returns Ok, and none of them
\* is classified Implicit or AdaptiveImplicit.
C14_ConstantsAccepted ==
    /\ (matrix \in FixedConstants /\ fixedRes # NotCalled) =>
          /\ fixedRes = Built(matrix)
          /\ KindOf(matrix) \notin {"Implicit", "AdaptiveImplicit"}
    /\ (matrix \in AdaptiveConstants /\ adaptRes # NotCalled) =>
          /\ adaptRes.ok
          /\ KindOf(matrix) \notin {"Implicit", "AdaptiveImplicit"}

====
